---- MODULE Spec2Model ----
(***************************************************************************)
(* Model of the rerun_bridge visualizer node (RerunLoggerNode):            *)
(* topic discovery, the per-kind message callbacks, the periodic tf        *)
(* sampler and the lazily initialised time offset, as run by the           *)
(* multi-threaded spinner.                                                 *)
(*                                                                         *)
(* Strings that the code inspects character by character (topic names,    *)
(* entity paths, frame names) are sequences of one-character strings.      *)
(* Timestamps are integers (seconds).  A value that may be absent is a     *)
(* sequence of length 0 or 1.                                              *)
(***************************************************************************)
EXTENDS Integers, Sequences, FiniteSets, TLC

\* ------------------------------------------------------------------ bounds
MaxTime == 2          \* raw timestamps are 1..MaxTime
MaxRegistry == 2      \* topic infos returned by one getTopics call
MaxEntries == 2       \* transforms in one TFMessage
NumWorkers == 2       \* spinner threads that are modelled
MaxNodes == 3         \* frames declared in one enumerated tf.tree

Times == 1..MaxTime
Workers == 1..NumWorkers

\* ------------------------------------------------------------------ strings
\* The characters that occur, in ASCII order (std::string compares by char).
Alphabet == <<"-", "/", "A", "B", "C", "a", "c", "i", "o", "p", "s", "t", "x">>

Ord(ch) == CHOOSE i \in 1..Len(Alphabet) : Alphabet[i] = ch

RECURSIVE StrLess(_, _)
StrLess(s, t) ==
    IF t = <<>> THEN FALSE
    ELSE IF s = <<>> THEN TRUE
    ELSE IF Ord(Head(s)) # Ord(Head(t)) THEN Ord(Head(s)) < Ord(Head(t))
    ELSE StrLess(Tail(s), Tail(t))

\* The keys of a std::map in iteration order.
RECURSIVE SortedKeys(_)
SortedKeys(S) ==
    IF S = {} THEN <<>>
    ELSE LET m == CHOOSE x \in S : \A y \in S \ {x} : StrLess(x, y)
         IN  <<m>> \o SortedKeys(S \ {m})

\* std::map operator[] assignment.
Put(f, k, v) == [x \in DOMAIN f \cup {k} |-> IF x = k THEN v ELSE f[x]]

EmptyMap == [x \in {} |-> <<>>]

\* Index of the last '/' of s, 0 when there is none (std::string::npos).
LastSlash(s) ==
    IF \E i \in 1..Len(s) : s[i] = "/"
    THEN CHOOSE i \in 1..Len(s) : s[i] = "/" /\ \A j \in (i+1)..Len(s) : s[j] # "/"
    ELSE 0

parent_entity_path(entity_path) ==
    IF LastSlash(entity_path) = 0 THEN <<>>
    ELSE SubSeq(entity_path, 1, LastSlash(entity_path) - 1)

TopicsPrefix == <<"/", "t", "o", "p", "i", "c", "s">>

\* A fallback that keeps the leading '/' only.
Flatten_every(topic) ==
    [i \in 1..Len(topic) |-> IF i >= 2 /\ topic[i] = "/" THEN "-" ELSE topic[i]]

\* The fallback of _resolve_entity_path: every '/' strictly between the first
\* character and the last '/' becomes '-'.
Flatten(topic) ==
    LET last == LastSlash(topic)
    IN  IF last # 1
        THEN [i \in 1..Len(topic) |->
                 IF i >= 2 /\ i < last /\ topic[i] = "/" THEN "-" ELSE topic[i]]
        ELSE topic

\* A resolver that never looks at the override table.
resolve_entity_path_fallback(overrides, topic) == TopicsPrefix \o Flatten(topic)

resolve_entity_path(overrides, topic) ==
    IF topic \in DOMAIN overrides THEN overrides[topic]
    ELSE TopicsPrefix \o Flatten(topic)

\* ------------------------------------------------------------------ file paths
PackageScheme == <<"p", "a", "c", "k", "a", "g", "e", ":", "/", "/">>
FileScheme == <<"f", "i", "l", "e", ":", "/", "/">>

\* path.find(prefix) == 0
StartsWith(path, prefix) ==
    Len(path) >= Len(prefix) /\ SubSeq(path, 1, Len(prefix)) = prefix

\* std::string::find(ch, pos): the 0-based index of the first ch at or after
\* pos, Npos when there is none.
Npos == -1
Find(s, ch, pos) ==
    IF \E i \in (pos + 1)..Len(s) : s[i] = ch
    THEN (CHOOSE i \in (pos + 1)..Len(s) :
              s[i] = ch /\ \A j \in (pos + 1)..(i - 1) : s[j] # ch) - 1
    ELSE Npos

\* std::string::substr(pos, count) for pos <= size: count is clipped to the
\* end of the string.
SubStr(s, pos, count) ==
    SubSeq(s, pos + 1, IF pos + count > Len(s) THEN Len(s) ELSE pos + count)

\* ros::package::getPath: the location of a package, empty when the package
\* is not known.
PackageLocations == [name \in {<<"p", "k">>} |-> <<"/", "r", "/", "p", "k">>]
getPath(package_name) ==
    IF package_name \in DOMAIN PackageLocations THEN PackageLocations[package_name]
    ELSE <<>>

\* The std::runtime_error message of lines 28-32, as the sequence of the
\* strings it is concatenated from.
CouldNotResolve(path, package_name) ==
    << <<"Could not resolve ">>, path,
       <<". Replace with relative / absolute path, source the correct ROS environment, or install ">>,
       package_name, <<".">> >>

\* A resolve_ros_path that hands back the reference with its scheme.
resolve_ros_path_keep_scheme(path) ==
    IF StartsWith(path, PackageScheme)
    THEN LET slash == Find(path, "/", Len(PackageScheme))
             package_name ==
                 SubStr(path, Len(PackageScheme),
                        IF slash = Npos THEN Len(path) ELSE slash - Len(PackageScheme))
             relative_path == SubStr(path, Len(PackageScheme) + Len(package_name), Len(path))
             package_path == getPath(package_name)
         IN  IF package_path = <<>>
             THEN [thrown |-> <<CouldNotResolve(path, package_name)>>, path |-> <<>>]
             ELSE [thrown |-> <<>>, path |-> getPath(package_name) \o relative_path]
    ELSE [thrown |-> <<>>, path |-> path]

\* resolve_ros_path: the path returned, or the exception thrown.  A find that
\* gives npos makes the count of line 24 wrap to a value past any length.
resolve_ros_path(path) ==
    IF StartsWith(path, PackageScheme)
    THEN LET slash == Find(path, "/", Len(PackageScheme))
             package_name ==
                 SubStr(path, Len(PackageScheme),
                        IF slash = Npos THEN Len(path) ELSE slash - Len(PackageScheme))
             relative_path == SubStr(path, Len(PackageScheme) + Len(package_name), Len(path))
             package_path == getPath(package_name)
         IN  IF package_path = <<>>
             THEN [thrown |-> <<CouldNotResolve(path, package_name)>>, path |-> <<>>]
             ELSE [thrown |-> <<>>, path |-> getPath(package_name) \o relative_path]
    ELSE IF StartsWith(path, FileScheme)
    THEN [thrown |-> <<>>, path |-> SubStr(path, Len(FileScheme), Len(path))]
    ELSE [thrown |-> <<>>, path |-> path]

\* ------------------------------------------------------------------ config
FrameA == <<"A">>
FrameB == <<"B">>
FrameC == <<"C">>
FrameX == <<"x">>     \* a frame no configuration declares

TopicA == <<"/", "a">>
TopicCI == <<"/", "c", "/", "i">>
TopicNames == {TopicA, TopicCI}

\* Further topic names, bound while the configuration documents vary.
TopicOneTwoThreeFour ==
    <<"/", "o", "n", "e", "/", "t", "w", "o", "/", "t", "h", "r", "e", "e", "/", "f", "o", "u", "r">>
TopicSingle == <<"/", "s", "i", "n", "g", "l", "e">>
TopicImageRaw ==
    <<"/", "c", "a", "m", "e", "r", "a", "/", "i", "m", "a", "g", "e", "_", "r", "a", "w">>
TopicCameraInfo ==
    <<"/", "c", "a", "m", "e", "r", "a", "/", "c", "a", "m", "e", "r", "a", "_", "i", "n", "f", "o">>
WideTopics == {TopicOneTwoThreeFour, TopicSingle, TopicImageRaw, TopicCameraInfo}
AllTopics == TopicNames \cup WideTopics

\* A tf.tree node is a sequence of <<frame, children>> pairs in document order.
TreeABC == << <<FrameA, << <<FrameB, << <<FrameC, <<>> >> >> >> >> >> >>

\* A recursion that hands down the enclosing frame's parent and path instead
\* of the frame's own.
RECURSIVE add_tf_tree_flat(_, _, _, _)
add_tf_tree_flat(node, parent_path, parent_frame, maps) ==
    IF node = <<>> THEN maps
    ELSE LET frame == Head(node)[1]
             value == Head(node)[2]
             entity_path == parent_path \o <<"/">> \o frame
             m1 == [path   |-> Put(maps.path, frame, entity_path),
                    parent |-> Put(maps.parent, frame, parent_frame)]
             m2 == IF Len(value) >= 1
                   THEN add_tf_tree_flat(value, parent_path, parent_frame, m1)
                   ELSE m1
         IN  add_tf_tree_flat(Tail(node), parent_path, parent_frame, m2)

\* A recursion that records a parent for enclosed frames only.
RECURSIVE add_tf_tree_enclosed_only(_, _, _, _)
add_tf_tree_enclosed_only(node, parent_path, parent_frame, maps) ==
    IF node = <<>> THEN maps
    ELSE LET frame == Head(node)[1]
             value == Head(node)[2]
             entity_path == parent_path \o <<"/">> \o frame
             m1 == [path   |-> Put(maps.path, frame, entity_path),
                    parent |-> IF parent_frame = <<>> THEN maps.parent
                               ELSE Put(maps.parent, frame, parent_frame)]
             m2 == IF Len(value) >= 1
                   THEN add_tf_tree_enclosed_only(value, entity_path, frame, m1)
                   ELSE m1
         IN  add_tf_tree_enclosed_only(Tail(node), parent_path, parent_frame, m2)

\* _add_tf_tree: maps is [path |-> frame -> entity path, parent |-> frame -> frame].
RECURSIVE add_tf_tree(_, _, _, _)
add_tf_tree(node, parent_path, parent_frame, maps) ==
    IF node = <<>> THEN maps
    ELSE LET frame == Head(node)[1]
             value == Head(node)[2]
             entity_path == parent_path \o <<"/">> \o frame
             m1 == [path   |-> Put(maps.path, frame, entity_path),
                    parent |-> Put(maps.parent, frame, parent_frame)]
             m2 == IF Len(value) >= 1
                   THEN add_tf_tree(value, entity_path, frame, m1)
                   ELSE m1
         IN  add_tf_tree(Tail(node), parent_path, parent_frame, m2)

TreeAB == << <<FrameA, << <<FrameB, <<>> >> >> >> >>

OverrideA == <<"/", "o", "/", "p">>

\* The configuration documents considered.  update_rate, tree and urdf (its
\* file_path) are absent (<<>>) or present (<<v>>).
Configs ==
    { [topic_to_entity_path |-> EmptyMap,
       update_rate |-> <<1>>, tree |-> <<TreeABC>>, urdf |-> <<>>],
      [topic_to_entity_path |-> [t \in {TopicA} |-> OverrideA],
       update_rate |-> <<0>>, tree |-> <<TreeAB>>, urdf |-> <<>>],
      [topic_to_entity_path |-> EmptyMap,
       update_rate |-> <<>>, tree |-> <<>>, urdf |-> <<>>] }

\* Further tf.tree declarations: two children of one root, and a lone root.
TreeSiblings == << <<FrameA, << <<FrameB, <<>> >>, <<FrameC, <<>> >> >> >> >>
TreeLeaf == << <<FrameA, <<>> >> >>

\* Further override values: a path of two segments under no leading '/',
\* and the empty path.
OverrideRelative == <<"x", "/", "y">>
OverrideEmpty == <<>>
OverridesWide ==
    [t \in {TopicOneTwoThreeFour, TopicSingle, TopicCameraInfo} |->
        IF t = TopicOneTwoThreeFour THEN OverrideEmpty
        ELSE IF t = TopicSingle THEN OverrideRelative
        ELSE OverrideA]

\* urdf.file_path values: package references with and without a rest, of a
\* known and of an unknown package, file references, and other strings.
UrdfPaths ==
    { PackageScheme \o <<"p", "k", "/", "u">>,
      PackageScheme \o <<"p", "k", "/", "u", "/", "v">>,
      PackageScheme \o <<"p", "k">>,
      PackageScheme \o <<"z", "z", "/", "u">>,
      PackageScheme \o <<"z", "z">>,
      FileScheme \o <<"u">>,
      FileScheme \o <<"/", "u", "/", "v">>,
      <<"/", "u">>,
      <<"u", "/", "v">>,
      <<"f", "i", "l", "e", ":", "/", "u">>,
      <<"x">> \o PackageScheme \o <<"p", "k", "/", "u">>,
      <<>> }

\* The further configuration documents startup is checked against.
StartupConfigs ==
    { [topic_to_entity_path |-> EmptyMap,
       update_rate |-> <<>>, tree |-> <<TreeAB>>, urdf |-> <<>>],
      [topic_to_entity_path |-> OverridesWide,
       update_rate |-> <<0>>, tree |-> <<TreeSiblings>>, urdf |-> <<>>],
      [topic_to_entity_path |-> EmptyMap,
       update_rate |-> <<1>>, tree |-> <<TreeLeaf>>, urdf |-> <<>>],
      [topic_to_entity_path |-> EmptyMap,
       update_rate |-> <<0>>, tree |-> <<TreeABC>>, urdf |-> <<>>],
      [topic_to_entity_path |-> EmptyMap,
       update_rate |-> <<>>, tree |-> <<>>, urdf |-> <<>>] }
    \cup
    { [topic_to_entity_path |-> EmptyMap,
       update_rate |-> <<1>>, tree |-> <<TreeLeaf>>, urdf |-> <<path>>] :
          path \in UrdfPaths }

\* Every tf.tree declaration of n frames named A or B: a first key with its
\* nested declaration of k frames, then the further keys of the same level.
\* A name may be a key more than once, at one level or at several.
DeclaredFrames == {FrameA, FrameB}

RECURSIVE Declarations(_)
Declarations(n) ==
    IF n = 0 THEN {<<>>}
    ELSE UNION { { << <<frame, value>> >> \o rest :
                       frame \in DeclaredFrames,
                       value \in Declarations(k),
                       rest \in Declarations(n - 1 - k) } : k \in 0..(n - 1) }

\* The documents whose tf.tree is any such declaration; the sampler is off.
TreeConfigs ==
    { [topic_to_entity_path |-> EmptyMap,
       update_rate |-> <<0>>, tree |-> <<tree>>, urdf |-> <<>>] :
          tree \in UNION {Declarations(n) : n \in 1..MaxNodes} }

\* A float member that no constructor or initializer sets holds any value.
IndeterminateRates == {0, 1}

\* The state _read_yaml_config leaves behind for document cfg.
ConfigMaps(cfg) ==
    IF cfg.tree # <<>>
    THEN add_tf_tree(cfg.tree[1], <<>>, <<>>, [path |-> EmptyMap, parent |-> EmptyMap])
    ELSE [path |-> EmptyMap, parent |-> EmptyMap]

ConfigRoot(cfg) ==
    IF cfg.tree # <<>> THEN Head(cfg.tree[1])[1] ELSE <<>>

ConfigRates(cfg) ==
    IF cfg.update_rate # <<>> THEN {cfg.update_rate[1]} ELSE IndeterminateRates

\* Lines 168-179: the file handed to the sink (log_file_from_path) and the
\* exception that left the constructor, if any.
NoUrdf == [file |-> <<>>, thrown |-> <<>>]

ConfigUrdf(cfg) ==
    IF cfg.urdf = <<>> THEN NoUrdf
    ELSE LET resolved == resolve_ros_path(cfg.urdf[1])
         IN  IF resolved.thrown # <<>>
             THEN [file |-> <<>>, thrown |-> resolved.thrown]
             ELSE [file |-> <<resolved.path>>, thrown |-> <<>>]

\* ------------------------------------------------------------------ bus
Supported == {"sensor_msgs/Image", "sensor_msgs/Imu", "geometry_msgs/PoseStamped",
              "tf2_msgs/TFMessage", "nav_msgs/Odometry", "sensor_msgs/CameraInfo"}
Datatypes == Supported \cup {"std_msgs/String"}

TopicInfos == [name : TopicNames, datatype : Datatypes]

RECURSIVE SeqsUpTo(_, _)
SeqsUpTo(S, n) ==
    IF n = 0 THEN {<<>>}
    ELSE LET shorter == SeqsUpTo(S, n - 1)
         IN  shorter \cup {Append(s, x) : s \in {q \in shorter : Len(q) = n - 1}, x \in S}

\* What getTopics can answer: the master lists a topic name once, with the
\* one datatype it holds for it.
Registries ==
    {r \in SeqsUpTo(TopicInfos, MaxRegistry) :
        \A j, k \in 1..Len(r) : r[j].name = r[k].name => j = k}

\* The registries the master answers with while messages flow.
Info(name, datatype) == [name |-> name, datatype |-> datatype]
\* The registries the master answers with while the configuration varies.
WideRegistries ==
    { <<Info(TopicOneTwoThreeFour, "sensor_msgs/Image"),
        Info(TopicCameraInfo, "sensor_msgs/CameraInfo")>>,
      <<Info(TopicImageRaw, "sensor_msgs/Image"), Info(TopicSingle, "sensor_msgs/Imu")>>,
      <<Info(TopicSingle, "sensor_msgs/CameraInfo"),
        Info(TopicOneTwoThreeFour, "nav_msgs/Odometry")>>,
      <<Info(TopicA, "sensor_msgs/Imu"), Info(TopicCI, "geometry_msgs/PoseStamped")>> }

SampleRegistries ==
    { <<Info(TopicA, "sensor_msgs/Image"), Info(TopicCI, "sensor_msgs/CameraInfo")>>,
      <<Info(TopicA, "sensor_msgs/Imu"), Info(TopicCI, "tf2_msgs/TFMessage")>>,
      <<Info(TopicA, "geometry_msgs/PoseStamped"), Info(TopicCI, "nav_msgs/Odometry")>> }

Encodings == {"16UC1", "32FC1", "bgr8", "mono16"}

\* ------------------------------------------------------------------ state
VARIABLES
    topic_to_entity_path,      \* _topic_to_entity_path
    tf_frame_to_entity_path,   \* _tf_frame_to_entity_path
    tf_frame_to_parent,        \* _tf_frame_to_parent
    root_frame,                \* _root_frame
    tf_fixed_rate,             \* _tf_fixed_rate
    config,                    \* the document _read_yaml_config read
    urdf,                      \* what the urdf section handed to the sink, or threw
    topic_to_subscriber,       \* _topic_to_subscriber: topic -> the callback bound
    time_offset,               \* _time_offset
    time_offset_initialized,   \* _time_offset_initialized
    pc,                        \* per worker: where its current callback stands
    job,                       \* per worker: the callback's locals
    thread_time,               \* per worker: the sink's thread-local "timestamp"
    subscribe_calls,           \* per topic: how many _nh.subscribe calls were made
    first_stamp,               \* the raw time of the first normalize call, if any
    seen_unsupported,          \* topics a poll looked at and left unbound
    crashed                    \* the process has faulted

cfgvars == <<topic_to_entity_path, tf_frame_to_entity_path, tf_frame_to_parent,
             root_frame, tf_fixed_rate, config, urdf>>
vars == <<topic_to_entity_path, tf_frame_to_entity_path, tf_frame_to_parent,
          root_frame, tf_fixed_rate, config, urdf, topic_to_subscriber, time_offset,
          time_offset_initialized, pc, job, thread_time, subscribe_calls,
          first_stamp, seen_unsupported, crashed>>

\* A worker's locals: the callback it runs (kind, topic), the raw time being
\* normalized (stamp), whether that normalize call is the first ever (first),
\* the value normalize returned (ret), the message as far as it was read (msg),
\* the sampler's loop position (i), the transform lookups made (looked) and
\* what the callback handed to the sink (out).  For a discovery poll msg is
\* the registry the master answered with, before the bindings and subscribe
\* calls as the poll found them, and i the number of bindings it added.
NoJob == [kind |-> "none", topic |-> <<>>, stamp |-> 0, first |-> FALSE,
          ret |-> <<>>, msg |-> <<>>, i |-> 0, looked |-> <<>>, out |-> <<>>,
          before |-> <<>>]

\* Line 47.
InitialOffset == 0

\* The constructor on document cfg.  An exception that leaves
\* _read_yaml_config leaves the constructor and main: the process is over
\* before spin() is reached.
Startup(cfg) ==
    /\ config = cfg
    /\ topic_to_entity_path = cfg.topic_to_entity_path
    /\ tf_frame_to_entity_path = ConfigMaps(cfg).path
    /\ tf_frame_to_parent = ConfigMaps(cfg).parent
    /\ root_frame = ConfigRoot(cfg)
    /\ tf_fixed_rate \in ConfigRates(cfg)
    /\ urdf = ConfigUrdf(cfg)
    /\ topic_to_subscriber = EmptyMap
    /\ time_offset = InitialOffset
    /\ time_offset_initialized = FALSE
    /\ pc = [w \in Workers |-> "idle"]
    /\ job = [w \in Workers |-> NoJob]
    /\ thread_time = [w \in Workers |-> <<>>]
    /\ subscribe_calls = [t \in AllTopics |-> 0]
    /\ first_stamp = <<>>
    /\ seen_unsupported = {}
    /\ crashed = (ConfigUrdf(cfg).thrown # <<>>)

Init == \E cfg \in Configs : Startup(cfg)

\* Startup on the further documents.
InitStartup == \E cfg \in StartupConfigs : Startup(cfg)

\* Startup on the documents of the enumerated frame trees.
InitTrees == \E cfg \in TreeConfigs : Startup(cfg)


\* ------------------------------------------------------------------ discovery
\* A poll that does not look for an existing subscriber.
AlreadySubscribed_never(subs, name) == FALSE

\* Line 203: the topic already has a subscriber.
AlreadySubscribed(subs, name) == name \in DOMAIN subs

\* The _create_*_subscriber factories: what the subscription's callback
\* captures (its kind, entity_path and, for images, lookup_transform).
create_image_subscriber(overrides, topic) ==
    [kind |-> "sensor_msgs/Image",
     entity_path |-> resolve_entity_path(overrides, topic),
     lookup_transform |-> topic \notin DOMAIN overrides]

create_imu_subscriber(overrides, topic) ==
    [kind |-> "sensor_msgs/Imu",
     entity_path |-> resolve_entity_path(overrides, topic),
     lookup_transform |-> FALSE]

create_pose_stamped_subscriber(overrides, topic) ==
    [kind |-> "geometry_msgs/PoseStamped",
     entity_path |-> resolve_entity_path(overrides, topic),
     lookup_transform |-> FALSE]

create_tf_message_subscriber(overrides, topic) ==
    [kind |-> "tf2_msgs/TFMessage",
     entity_path |-> resolve_entity_path(overrides, topic),
     lookup_transform |-> FALSE]

create_odometry_subscriber(overrides, topic) ==
    [kind |-> "nav_msgs/Odometry",
     entity_path |-> resolve_entity_path(overrides, topic),
     lookup_transform |-> FALSE]

\* A camera-info factory that keeps the resolved path.
create_camera_info_subscriber_resolved(overrides, topic) ==
    [kind |-> "sensor_msgs/CameraInfo",
     entity_path |-> resolve_entity_path(overrides, topic),
     lookup_transform |-> FALSE]

create_camera_info_subscriber(overrides, topic) ==
    [kind |-> "sensor_msgs/CameraInfo",
     entity_path |-> IF topic \notin DOMAIN overrides
                     THEN parent_entity_path(resolve_entity_path(overrides, topic))
                     ELSE resolve_entity_path(overrides, topic),
     lookup_transform |-> FALSE]

\* The odometry branch calling the stamped-pose factory.
Dispatch_odometry_as_pose(overrides, info) ==
    IF info.datatype = "sensor_msgs/Image"
        THEN <<create_image_subscriber(overrides, info.name)>>
    ELSE IF info.datatype = "sensor_msgs/Imu"
        THEN <<create_imu_subscriber(overrides, info.name)>>
    ELSE IF info.datatype = "geometry_msgs/PoseStamped"
        THEN <<create_pose_stamped_subscriber(overrides, info.name)>>
    ELSE IF info.datatype = "tf2_msgs/TFMessage"
        THEN <<create_tf_message_subscriber(overrides, info.name)>>
    ELSE IF info.datatype = "nav_msgs/Odometry"
        THEN <<create_pose_stamped_subscriber(overrides, info.name)>>
    ELSE IF info.datatype = "sensor_msgs/CameraInfo"
        THEN <<create_camera_info_subscriber(overrides, info.name)>>
    ELSE <<>>

\* The chain of branches without its last one.
Dispatch_no_camera_info(overrides, info) ==
    IF info.datatype = "sensor_msgs/Image"
        THEN <<create_image_subscriber(overrides, info.name)>>
    ELSE IF info.datatype = "sensor_msgs/Imu"
        THEN <<create_imu_subscriber(overrides, info.name)>>
    ELSE IF info.datatype = "geometry_msgs/PoseStamped"
        THEN <<create_pose_stamped_subscriber(overrides, info.name)>>
    ELSE IF info.datatype = "tf2_msgs/TFMessage"
        THEN <<create_tf_message_subscriber(overrides, info.name)>>
    ELSE IF info.datatype = "nav_msgs/Odometry"
        THEN <<create_odometry_subscriber(overrides, info.name)>>
    ELSE <<>>

\* Lines 207-220: the subscriber made for a topic info, <<>> when its datatype
\* matches none of the branches.
Dispatch(overrides, info) ==
    IF info.datatype = "sensor_msgs/Image"
        THEN <<create_image_subscriber(overrides, info.name)>>
    ELSE IF info.datatype = "sensor_msgs/Imu"
        THEN <<create_imu_subscriber(overrides, info.name)>>
    ELSE IF info.datatype = "geometry_msgs/PoseStamped"
        THEN <<create_pose_stamped_subscriber(overrides, info.name)>>
    ELSE IF info.datatype = "tf2_msgs/TFMessage"
        THEN <<create_tf_message_subscriber(overrides, info.name)>>
    ELSE IF info.datatype = "nav_msgs/Odometry"
        THEN <<create_odometry_subscriber(overrides, info.name)>>
    ELSE IF info.datatype = "sensor_msgs/CameraInfo"
        THEN <<create_camera_info_subscriber(overrides, info.name)>>
    ELSE <<>>

\* The loop of _create_subscribers over topic_infos, from the state
\* st = [subs |-> _topic_to_subscriber, calls |-> subscribe calls per topic,
\*       ignored |-> topics looked at and left unbound].
RECURSIVE create_subscribers(_, _, _)
create_subscribers(overrides, topic_infos, st) ==
    IF topic_infos = <<>> THEN st
    ELSE LET info == Head(topic_infos)
             made == Dispatch(overrides, info)
             next == IF AlreadySubscribed(st.subs, info.name) THEN st
                     ELSE IF made # <<>>
                     THEN [st EXCEPT !.subs = Put(st.subs, info.name, made[1]),
                                     !.calls[info.name] = @ + 1]
                     ELSE [st EXCEPT !.ignored = @ \cup {info.name}]
         IN  create_subscribers(overrides, Tail(topic_infos), next)

\* ------------------------------------------------------------------ sink
\* The recording stream as one thread sees it: rec.time is the thread-local
\* "timestamp" timeline (<<>> until set_time_seconds is called on the thread),
\* rec.out the values logged.  log stamps a value with the thread's timeline.
set_time_seconds(rec, t) == [rec EXCEPT !.time = <<t>>]

log(rec, entity_path, archetype, arg) ==
    [rec EXCEPT !.out = Append(@, [path |-> entity_path, archetype |-> archetype,
                                   arg |-> arg, timestamp |-> rec.time])]

log_imu(rec, entity_path, msg, normalized_timestamp) ==
    LET r0 == set_time_seconds(rec, normalized_timestamp)
        r1 == log(r0, entity_path \o <<"/", "x">>, "Scalar", <<"x">>)
        r2 == log(r1, entity_path \o <<"/", "y">>, "Scalar", <<"y">>)
    IN  log(r2, entity_path \o <<"/", "z">>, "Scalar", <<"z">>)

\* A transcoder that takes 16-bit depth to be in meters.
log_image_unit_scale(rec, entity_path, msg, normalized_timestamp) ==
    LET r0 == set_time_seconds(rec, normalized_timestamp)
    IN  IF msg.encoding = "16UC1" THEN log(r0, entity_path, "DepthImage", <<1>>)
        ELSE IF msg.encoding = "32FC1" THEN log(r0, entity_path, "DepthImage", <<1>>)
        ELSE log(r0, entity_path, "Image", <<>>)

\* log_image: a DepthImage carries the argument of with_meter, the number of
\* depth units in a meter.
log_image(rec, entity_path, msg, normalized_timestamp) ==
    LET r0 == set_time_seconds(rec, normalized_timestamp)
    IN  IF msg.encoding = "16UC1" THEN log(r0, entity_path, "DepthImage", <<1000>>)
        ELSE IF msg.encoding = "32FC1" THEN log(r0, entity_path, "DepthImage", <<1>>)
        ELSE log(r0, entity_path, "Image", <<>>)

TrajectoriesPrefix ==
    <<"/", "t", "r", "a", "j", "e", "c", "t", "o", "r", "i", "e", "s", "/">>

log_pose_stamped(rec, entity_path, msg, normalized_timestamp) ==
    LET r0 == set_time_seconds(rec, normalized_timestamp)
        r1 == log(r0, entity_path, "Transform3D", <<msg>>)
    IN  log(r1, TrajectoriesPrefix \o entity_path, "Points3D", <<msg>>)

\* An entry logged at the time of its own header.
log_tf_entry_own_stamp(rec, frame_to_path, transform, normalized_timestamp) ==
    IF transform.child_frame_id \notin DOMAIN frame_to_path
    THEN rec
    ELSE log(set_time_seconds(rec, transform.stamp),
             frame_to_path[transform.child_frame_id], "Transform3D", <<transform>>)

\* One pass of the loop of log_tf_message, for the entry transform.
log_tf_entry(rec, frame_to_path, transform, normalized_timestamp) ==
    IF transform.child_frame_id \notin DOMAIN frame_to_path
    THEN rec
    ELSE log(set_time_seconds(rec, normalized_timestamp),
             frame_to_path[transform.child_frame_id], "Transform3D", <<transform>>)

\* A loop that ends at the first entry without an entity path.
RECURSIVE log_tf_message_abort(_, _, _, _)
log_tf_message_abort(rec, frame_to_path, transforms, normalized_timestamp) ==
    IF transforms = <<>> THEN rec
    ELSE IF Head(transforms).child_frame_id \notin DOMAIN frame_to_path THEN rec
    ELSE log_tf_message_abort(
             log_tf_entry(rec, frame_to_path, Head(transforms), normalized_timestamp),
             frame_to_path, Tail(transforms), normalized_timestamp)

RECURSIVE log_tf_message(_, _, _, _)
log_tf_message(rec, frame_to_path, transforms, normalized_timestamp) ==
    IF transforms = <<>> THEN rec
    ELSE log_tf_message(
             log_tf_entry(rec, frame_to_path, Head(transforms), normalized_timestamp),
             frame_to_path, Tail(transforms), normalized_timestamp)

log_odometry(rec, entity_path, msg, normalized_timestamp) ==
    log(set_time_seconds(rec, normalized_timestamp), entity_path, "Transform3D", <<msg>>)

\* log_camera_info takes normalized_timestamp and never sets the timeline.
log_camera_info(rec, entity_path, msg, normalized_timestamp) ==
    log(rec, entity_path, "Pinhole", <<msg>>)

log_transform(rec, entity_path, transform, normalized_timestamp) ==
    log(set_time_seconds(rec, normalized_timestamp), entity_path, "Transform3D",
        <<transform>>)

\* What _tf_buffer.lookupTransform(target, source, time) returns when it
\* does not throw.
Transform(target, source, time) ==
    [child_frame_id |-> source, frame_id |-> target, stamp |-> time]

\* No other worker runs the callback of the same timer or subscription
\* (roscpp does not run one timer or one subscription concurrently with itself).
NotRunning(w, kind, topic) ==
    \A u \in Workers \ {w} :
        pc[u] = "idle" \/ job[u].kind # kind \/ job[u].topic # topic

\* A poll that starts from an empty subscriber map.
PollState_cleared ==
    [subs |-> EmptyMap, calls |-> subscribe_calls, ignored |-> {}]

\* What the loop of _create_subscribers starts from: the members as they are.
PollState ==
    [subs |-> topic_to_subscriber, calls |-> subscribe_calls, ignored |-> {}]

\* Worker w is free to take the discovery timer's callback.
CanPoll(w) ==
    /\ ~crashed
    /\ pc[w] = "idle"
    /\ NotRunning(w, "poll", <<>>)

\* A poll that records the paths it resolved in the override table, as a
\* resolver reading the table with operator[] would.
PollWith_caching(w, topic_infos) ==
    LET st == create_subscribers(topic_to_entity_path, topic_infos, PollState)
    IN  /\ topic_to_subscriber' = st.subs
        /\ topic_to_entity_path' =
               [t \in DOMAIN st.subs |->
                   resolve_entity_path(topic_to_entity_path, t)]
        /\ subscribe_calls' = st.calls
        /\ pc' = [pc EXCEPT ![w] = "done"]
        /\ job' = [job EXCEPT ![w] =
                     [NoJob EXCEPT !.kind = "poll",
                                   !.msg = topic_infos,
                                   !.before = <<[subs |-> topic_to_subscriber,
                                                 calls |-> subscribe_calls]>>,
                                   !.i = Cardinality(DOMAIN st.subs)
                                         - Cardinality(DOMAIN topic_to_subscriber)]]
        /\ seen_unsupported' = seen_unsupported \cup st.ignored
        /\ UNCHANGED <<tf_frame_to_entity_path, tf_frame_to_parent, root_frame,
                       tf_fixed_rate, config, urdf, time_offset,
                       time_offset_initialized, thread_time, first_stamp, crashed>>

\* The discovery timer's callback (spin, line 355) on worker w, the master
\* answering getTopics with topic_infos.
PollWith(w, topic_infos) ==
    LET st == create_subscribers(topic_to_entity_path, topic_infos, PollState)
    IN  /\ topic_to_subscriber' = st.subs
        /\ subscribe_calls' = st.calls
        /\ pc' = [pc EXCEPT ![w] = "done"]
        /\ job' = [job EXCEPT ![w] =
                     [NoJob EXCEPT !.kind = "poll",
                                   !.msg = topic_infos,
                                   !.before = <<[subs |-> topic_to_subscriber,
                                                 calls |-> subscribe_calls]>>,
                                   !.i = Cardinality(DOMAIN st.subs)
                                         - Cardinality(DOMAIN topic_to_subscriber)]]
        /\ seen_unsupported' = seen_unsupported \cup st.ignored
        /\ UNCHANGED <<cfgvars, time_offset, time_offset_initialized, thread_time,
                       first_stamp, crashed>>

Poll(w) == CanPoll(w) /\ \E topic_infos \in SampleRegistries : PollWith(w, topic_infos)

\* The same callback, the master answering with any registry.
PollAny(w) == CanPoll(w) /\ \E topic_infos \in Registries : PollWith(w, topic_infos)

\* The callback returns and the worker takes the next one.
Finish(w) ==
    /\ ~crashed
    /\ pc[w] = "done"
    /\ pc' = [pc EXCEPT ![w] = "idle"]
    /\ job' = [job EXCEPT ![w] = NoJob]
    /\ UNCHANGED <<cfgvars, topic_to_subscriber, time_offset, time_offset_initialized,
                   thread_time, subscribe_calls, first_stamp, seen_unsupported,
                   crashed>>

\* ------------------------------------------------------------------ messages
ImageFrames == {FrameB}
TfFrames == {FrameB, FrameC, FrameX}
TfEntries == [child_frame_id : TfFrames, stamp : Times]

\* The TFMessages whose first entry carries the given stamp.
TfMessages(stamp) ==
    {m \in SeqsUpTo(TfEntries, MaxEntries) : m # <<>> /\ m[1].stamp = stamp}

\* ------------------------------------------------------------------ normalize
\* _normalize_timestamp is entered with raw time stamp; next is the job the
\* worker carries into the call.
EnterNormalize(w, next) ==
    /\ pc' = [pc EXCEPT ![w] = "norm_check"]
    /\ job' = [job EXCEPT ![w] = [next EXCEPT !.first = (first_stamp = <<>>)]]
    /\ first_stamp' = IF first_stamp = <<>> THEN <<next.stamp>> ELSE first_stamp

\* Line 60: the unsynchronised read of the flag.  The two stores of lines
\* 61-62 are plain stores to different objects: the build and the hardware
\* may make them visible in either order.
NormCheck(w) ==
    /\ ~crashed
    /\ pc[w] = "norm_check"
    /\ IF time_offset_initialized
       THEN pc' = [pc EXCEPT ![w] = "norm_ret"]
       ELSE \E first \in {"store_offset", "flag_first"} : pc' = [pc EXCEPT ![w] = first]
    /\ UNCHANGED <<cfgvars, topic_to_subscriber, time_offset, time_offset_initialized,
                   job, thread_time, subscribe_calls, first_stamp, seen_unsupported,
                   crashed>>

\* Lines 61-62 in program order, and in the other order.
NormStore(w) ==
    /\ ~crashed
    /\ \/ /\ pc[w] = "store_offset"
          /\ time_offset' = job[w].stamp
          /\ pc' = [pc EXCEPT ![w] = "store_flag"]
          /\ UNCHANGED time_offset_initialized
       \/ /\ pc[w] = "store_flag"
          /\ time_offset_initialized' = TRUE
          /\ pc' = [pc EXCEPT ![w] = "norm_ret"]
          /\ UNCHANGED time_offset
       \/ /\ pc[w] = "flag_first"
          /\ time_offset_initialized' = TRUE
          /\ pc' = [pc EXCEPT ![w] = "offset_last"]
          /\ UNCHANGED time_offset
       \/ /\ pc[w] = "offset_last"
          /\ time_offset' = job[w].stamp
          /\ pc' = [pc EXCEPT ![w] = "norm_ret"]
          /\ UNCHANGED time_offset_initialized
    /\ UNCHANGED <<cfgvars, topic_to_subscriber, job, thread_time, subscribe_calls,
                   first_stamp, seen_unsupported, crashed>>

\* A normalize that clamps at zero.
normalize_return_clamped(stamp, offset) == IF stamp < offset THEN 0 ELSE stamp - offset

\* Line 65.
normalize_return(stamp, offset) == stamp - offset

\* ------------------------------------------------------------------ callbacks
\* The lambdas of the _create_*_subscriber factories after their call of
\* _normalize_timestamp: sub is what the lambda captured, rec the sink as
\* the worker sees it.  Each gives the message, the lookups made and the sink.
Ran(msg, looked, rec) == [msg |-> msg, looked |-> looked, rec |-> rec]

\* A call of _tf_buffer.lookupTransform(target, source, time, timeout) and
\* whether it returned (found) or threw tf2::TransformException.  timeout is
\* in tenths of a second, 0 when the call passes none.
Lookup(target, source, time, timeout, found) ==
    [target |-> target, frame |-> source, time |-> time, timeout |-> timeout,
     found |-> found]

\* ros::Duration(0.1), line 271.
LookupTimeoutTenths == 1

\* An image callback whose failed lookup ends the callback.
image_callback_abort(sub, msg, normalized_timestamp, rec, found) ==
    LET attempted == root_frame # <<>> /\ sub.lookup_transform
        r1 == IF attempted /\ found
              THEN log_transform(rec, parent_entity_path(sub.entity_path),
                                 Transform(root_frame, msg.frame_id, msg.stamp),
                                 normalized_timestamp)
              ELSE rec
    IN  Ran(msg,
            IF attempted
            THEN <<Lookup(root_frame, msg.frame_id, msg.stamp, LookupTimeoutTenths, found)>>
            ELSE <<>>,
            IF attempted /\ ~found THEN rec
            ELSE log_image(r1, sub.entity_path, msg, normalized_timestamp))

\* An image callback that looks the transform up for overridden topics too.
image_callback_any_topic(sub, msg, normalized_timestamp, rec, found) ==
    LET attempted == root_frame # <<>>
        r1 == IF attempted /\ found
              THEN log_transform(rec, parent_entity_path(sub.entity_path),
                                 Transform(root_frame, msg.frame_id, msg.stamp),
                                 normalized_timestamp)
              ELSE rec
    IN  Ran(msg,
            IF attempted
            THEN <<Lookup(root_frame, msg.frame_id, msg.stamp, LookupTimeoutTenths, found)>>
            ELSE <<>>,
            log_image(r1, sub.entity_path, msg, normalized_timestamp))

\* The lambda of _create_image_subscriber after line 264.
image_callback(sub, msg, normalized_timestamp, rec, found) ==
    LET attempted == root_frame # <<>> /\ sub.lookup_transform
        r1 == IF attempted /\ found
              THEN log_transform(rec, parent_entity_path(sub.entity_path),
                                 Transform(root_frame, msg.frame_id, msg.stamp),
                                 normalized_timestamp)
              ELSE rec
    IN  Ran(msg,
            IF attempted
            THEN <<Lookup(root_frame, msg.frame_id, msg.stamp, LookupTimeoutTenths, found)>>
            ELSE <<>>,
            log_image(r1, sub.entity_path, msg, normalized_timestamp))

imu_callback(sub, msg, normalized_timestamp, rec) ==
    Ran(msg, <<>>, log_imu(rec, sub.entity_path, msg, normalized_timestamp))

pose_stamped_callback(sub, msg, normalized_timestamp, rec) ==
    Ran(msg, <<>>, log_pose_stamped(rec, sub.entity_path, msg, normalized_timestamp))

tf_message_callback(sub, msg, normalized_timestamp, rec) ==
    Ran(msg, <<>>,
        log_tf_message(rec, tf_frame_to_entity_path, msg, normalized_timestamp))

odometry_callback(sub, msg, normalized_timestamp, rec) ==
    Ran(msg, <<>>, log_odometry(rec, sub.entity_path, msg, normalized_timestamp))

camera_info_callback(sub, msg, normalized_timestamp, rec) ==
    Ran(msg, <<>>, log_camera_info(rec, sub.entity_path, msg, normalized_timestamp))

\* Every way the callback of sub can run on a message with the given header
\* stamp (out_of_bounds: the stamp was read from an empty transform list).
Runs(sub, stamp, out_of_bounds, normalized_timestamp, rec) ==
    IF sub.kind = "sensor_msgs/Image"
    THEN {image_callback(sub, [stamp |-> stamp, frame_id |-> f, encoding |-> e],
                         normalized_timestamp, rec, found) :
              f \in ImageFrames, e \in Encodings, found \in BOOLEAN}
    ELSE IF sub.kind = "sensor_msgs/Imu"
    THEN {imu_callback(sub, [stamp |-> stamp], normalized_timestamp, rec)}
    ELSE IF sub.kind = "geometry_msgs/PoseStamped"
    THEN {pose_stamped_callback(sub, [stamp |-> stamp], normalized_timestamp, rec)}
    ELSE IF sub.kind = "tf2_msgs/TFMessage"
    THEN {tf_message_callback(sub, m, normalized_timestamp, rec) :
              m \in IF out_of_bounds THEN {<<>>} ELSE TfMessages(stamp)}
    ELSE IF sub.kind = "nav_msgs/Odometry"
    THEN {odometry_callback(sub, [stamp |-> stamp], normalized_timestamp, rec)}
    ELSE {camera_info_callback(sub, [stamp |-> stamp], normalized_timestamp, rec)}

\* A message of a subscribed topic is handed to worker w, and the callback
\* runs up to its call of _normalize_timestamp.  The TFMessage callback reads
\* transforms[0] without looking at the size: on an empty list the read is
\* out of bounds, and faults or yields some value.
StartCallback(w) ==
    /\ ~crashed
    /\ pc[w] = "idle"
    /\ \E topic \in DOMAIN topic_to_subscriber :
        LET sub == topic_to_subscriber[topic]
            begun == [NoJob EXCEPT !.kind = sub.kind, !.topic = topic]
        IN  /\ NotRunning(w, sub.kind, topic)
            /\ \/ /\ \E stamp \in Times : EnterNormalize(w, [begun EXCEPT !.stamp = stamp])
                  /\ UNCHANGED crashed
               \/ /\ sub.kind = "tf2_msgs/TFMessage"
                  /\ \E stamp \in Times :
                        EnterNormalize(w, [begun EXCEPT !.stamp = stamp, !.i = -1])
                  /\ UNCHANGED crashed
               \/ /\ sub.kind = "tf2_msgs/TFMessage"
                  /\ crashed' = TRUE
                  /\ UNCHANGED <<pc, job, first_stamp>>
    /\ UNCHANGED <<cfgvars, topic_to_subscriber, time_offset, time_offset_initialized,
                   thread_time, subscribe_calls, seen_unsupported>>

\* ------------------------------------------------------------------ sampler
\* The sampler timer's callback (spin, lines 358-363) starts: line 233.
\* now is at least 1, so that now - 1.0 is a time ros::Time can hold.
StartTick(w) ==
    /\ ~crashed
    /\ pc[w] = "idle"
    /\ tf_fixed_rate # 0
    /\ NotRunning(w, "tick", <<>>)
    /\ \E now \in Times :
        job' = [job EXCEPT ![w] = [NoJob EXCEPT !.kind = "tick", !.stamp = now, !.i = 1]]
    /\ pc' = [pc EXCEPT ![w] = "tf_iter"]
    /\ UNCHANGED <<cfgvars, topic_to_subscriber, time_offset, time_offset_initialized,
                   thread_time, subscribe_calls, first_stamp, seen_unsupported,
                   crashed>>

\* Line 236: the frame is skipped without a lookup.
NoParent(frame) ==
    frame \notin DOMAIN tf_frame_to_parent \/ tf_frame_to_parent[frame] = <<>>

TfFrameOrder == SortedKeys(DOMAIN tf_frame_to_entity_path)

\* A failed lookup that ends the tick.
AfterFailedLookup_abort(i) == Len(TfFrameOrder) + 1

\* Lines 244-252: the catch block warns and the loop goes on.
AfterFailedLookup(i) == i + 1

\* One pass of the loop of _update_tf up to its call of _normalize_timestamp
\* (lines 234-242), or the end of the loop.
TfIter(w) ==
    /\ ~crashed
    /\ pc[w] = "tf_iter"
    /\ IF job[w].i > Len(TfFrameOrder)
       THEN /\ pc' = [pc EXCEPT ![w] = "done"]
            /\ UNCHANGED <<job, first_stamp>>
       ELSE LET frame == TfFrameOrder[job[w].i]
            IN  IF NoParent(frame)
                THEN /\ job' = [job EXCEPT ![w].i = @ + 1]
                     /\ UNCHANGED <<pc, first_stamp>>
                ELSE \E found \in BOOLEAN :
                       LET seen == [job[w] EXCEPT
                                      !.looked = Append(@,
                                          Lookup(tf_frame_to_parent[frame], frame,
                                                 job[w].stamp - 1, 0, found))]
                       IN  IF found
                           THEN EnterNormalize(w, seen)
                           ELSE /\ job' = [job EXCEPT ![w] =
                                              [seen EXCEPT !.i = AfterFailedLookup(@)]]
                                /\ UNCHANGED <<pc, first_stamp>>
    /\ UNCHANGED <<cfgvars, topic_to_subscriber, time_offset, time_offset_initialized,
                   thread_time, subscribe_calls, seen_unsupported, crashed>>

\* An emission stamped with the time the lookup asked for.
update_tf_emit_lookup_time(rec, frame, now, normalized_timestamp) ==
    log_transform(rec, tf_frame_to_entity_path[frame],
                  Transform(tf_frame_to_parent[frame], frame, now - 1),
                  normalized_timestamp - 1)

\* Line 243 for the frame the loop is at.
update_tf_emit(rec, frame, now, normalized_timestamp) ==
    log_transform(rec, tf_frame_to_entity_path[frame],
                  Transform(tf_frame_to_parent[frame], frame, now - 1),
                  normalized_timestamp)

\* _normalize_timestamp returns (line 65) and the caller goes on: a message
\* callback runs to its end, the sampler logs the frame and loops.
NormRet(w) ==
    /\ ~crashed
    /\ pc[w] = "norm_ret"
    /\ LET ret == normalize_return(job[w].stamp, time_offset)
           rec == [time |-> thread_time[w], out |-> job[w].out]
       IN  IF job[w].kind = "tick"
           THEN LET r == update_tf_emit(rec, TfFrameOrder[job[w].i], job[w].stamp, ret)
                IN  /\ job' = [job EXCEPT ![w] = [@ EXCEPT !.ret = <<ret>>, !.i = @ + 1,
                                                           !.out = r.out]]
                    /\ thread_time' = [thread_time EXCEPT ![w] = r.time]
                    /\ pc' = [pc EXCEPT ![w] = "tf_iter"]
           ELSE \E run \in Runs(topic_to_subscriber[job[w].topic], job[w].stamp,
                                job[w].i = -1, ret, rec) :
                    /\ job' = [job EXCEPT ![w] = [@ EXCEPT !.ret = <<ret>>,
                                                           !.msg = run.msg,
                                                           !.looked = run.looked,
                                                           !.out = run.rec.out]]
                    /\ thread_time' = [thread_time EXCEPT ![w] = run.rec.time]
                    /\ pc' = [pc EXCEPT ![w] = "done"]
    /\ UNCHANGED <<cfgvars, topic_to_subscriber, time_offset, time_offset_initialized,
                   subscribe_calls, first_stamp, seen_unsupported, crashed>>

Next ==
    \E w \in Workers :
        \/ Poll(w)
        \/ StartCallback(w)
        \/ StartTick(w)
        \/ TfIter(w)
        \/ NormCheck(w)
        \/ NormStore(w)
        \/ NormRet(w)
        \/ Finish(w)

Spec == Init /\ [][Next]_vars

\* A sequential run: a callback is taken only when no other is running.
AllIdle == \A w \in Workers : pc[w] = "idle"

SeqPoll(w) == AllIdle /\ Poll(w)
SeqStartCallback(w) == AllIdle /\ StartCallback(w)
SeqStartTick(w) == AllIdle /\ StartTick(w)

NextSeq ==
    \E w \in Workers :
        \/ SeqPoll(w)
        \/ SeqStartCallback(w)
        \/ SeqStartTick(w)
        \/ TfIter(w)
        \/ NormCheck(w)
        \/ NormStore(w)
        \/ NormRet(w)
        \/ Finish(w)

SpecSeq == Init /\ [][NextSeq]_vars

\* Discovery alone: the timer of line 355 against any registry.
NextDiscovery ==
    \E w \in Workers :
        \/ PollAny(w)
        \/ Finish(w)

SpecDiscovery == Init /\ [][NextDiscovery]_vars

\* Startup on any of the documents, then the two timers of spin(), one
\* callback at a time, the master answering with the wider registries.
PollWide(w) ==
    AllIdle /\ CanPoll(w) /\ \E topic_infos \in WideRegistries : PollWith(w, topic_infos)

NextStartup ==
    \E w \in Workers :
        \/ PollWide(w)
        \/ SeqStartTick(w)
        \/ TfIter(w)
        \/ NormCheck(w)
        \/ NormStore(w)
        \/ NormRet(w)
        \/ Finish(w)

SpecStartup == InitStartup /\ [][NextStartup]_vars

\* Startup on any of the enumerated frame trees, then the discovery timer.
NextTrees ==
    \E w \in Workers :
        \/ PollWide(w)
        \/ Finish(w)

SpecTrees == InitTrees /\ [][NextTrees]_vars


\* ------------------------------------------------------------------ claims
MessageKinds == Supported
Done(w, kind) == pc[w] = "done" /\ job[w].kind = kind

\* C1: with callbacks and the sampler running concurrently, the time offset
\* is initialised exactly once: once a normalize call has stored an offset no
\* step changes it, the flag once set stays set, and every normalize call
\* returns its raw time minus the offset captured from the first observed
\* timestamp.
C1_OffsetInitialisedOnce ==
    [][/\ time_offset # InitialOffset => time_offset' = time_offset
       /\ time_offset_initialized => time_offset_initialized'
       /\ \A w \in Workers :
            (pc[w] = "norm_ret" /\ pc'[w] # "norm_ret") =>
                job'[w].ret = <<job[w].stamp - first_stamp[1]>>]_vars

\* C4: in a sequential run the first normalize call returns 0 and every
\* later call with raw time T1 returns T1 - T0, T0 the raw time of the
\* first call, negative when T1 < T0, whoever calls.
C4_SequentialNormalize ==
    \A w \in Workers :
        job[w].ret # <<>> =>
            /\ job[w].ret = <<job[w].stamp - first_stamp[1]>>
            /\ job[w].first => job[w].ret = <<0>>

\* The sampler, calling after the first call, with a raw time before the
\* first one, has got a negative value.
C4_NegativeReturned ==
    \E w \in Workers :
        /\ Done(w, "tick")
        /\ job[w].ret = <<-1>>
        /\ ~job[w].first
        /\ job[w].stamp < first_stamp[1]


\* C2: over any sequence of discovery polls a topic is subscribed at most
\* once (one subscribe call per bound topic, none for an unbound one), and a
\* binding, once made, is never removed or replaced.
C2_OneBindingPerTopic ==
    [][\A t \in TopicNames :
          /\ subscribe_calls'[t] = IF t \in DOMAIN topic_to_subscriber' THEN 1 ELSE 0
          /\ t \in DOMAIN topic_to_subscriber =>
                /\ t \in DOMAIN topic_to_subscriber'
                /\ topic_to_subscriber'[t] = topic_to_subscriber[t]]_vars

Declares(topic_infos, t, datatypes) ==
    \E k \in 1..Len(topic_infos) :
        topic_infos[k].name = t /\ topic_infos[k].datatype \in datatypes

\* A poll has run whose registry declared an already bound topic with
\* another supported kind, and one whose registry no longer held a bound topic.
C2_RedeclaredOrGone ==
    \E w \in Workers :
        /\ Done(w, "poll")
        /\ job[w].before[1].subs # EmptyMap
        /\ \E t \in DOMAIN job[w].before[1].subs :
              \/ Declares(job[w].msg, t, Supported \ {job[w].before[1].subs[t].kind})
              \/ ~Declares(job[w].msg, t, Datatypes)

\* C3: for every message kind but the transform list, every value the
\* callback hands to the sink carries the normalized timestamp that the
\* callback derived from the message's own header time.
C3_StampedWithOwnTime ==
    \A w \in Workers :
        (pc[w] = "done" /\ job[w].kind \in MessageKinds \ {"tf2_msgs/TFMessage"}) =>
            \A k \in 1..Len(job[w].out) : job[w].out[k].timestamp = job[w].ret

\* C5: a transform-list callback emits exactly one rigid transform per entry
\* whose child frame is in the frame-to-path table, at that frame's path and
\* in entry order; unmapped entries emit nothing and stop nothing.
HasEntityPath(entry) == entry.child_frame_id \in DOMAIN tf_frame_to_entity_path

C5_OneEmissionPerMappedEntry ==
    \A w \in Workers :
        Done(w, "tf2_msgs/TFMessage") =>
            LET mapped == SelectSeq(job[w].msg, HasEntityPath)
                out == job[w].out
            IN  /\ Len(out) = Len(mapped)
                /\ \A k \in 1..Len(mapped) :
                      /\ out[k].path = tf_frame_to_entity_path[mapped[k].child_frame_id]
                      /\ out[k].archetype = "Transform3D"
                      /\ out[k].arg = <<mapped[k]>>
                /\ ~crashed

\* A batch of an unmapped entry followed by a mapped one has been handled,
\* with one emission.
C5_UnmappedThenMapped ==
    \E w \in Workers :
        /\ Done(w, "tf2_msgs/TFMessage")
        /\ Len(job[w].msg) = 2
        /\ ~HasEntityPath(job[w].msg[1])
        /\ HasEntityPath(job[w].msg[2])
        /\ Len(job[w].out) = 1

\* C6: an image of a topic with no override is emitted at its entity path
\* whether the lookup succeeds or fails; on success the transform is emitted
\* before it, at the parent path and with the same timestamp; on failure
\* nothing else is emitted and the callback ends normally.
C6_ImageEmittedEitherWay ==
    \A w \in Workers :
        (Done(w, "sensor_msgs/Image") /\ job[w].topic \notin DOMAIN topic_to_entity_path) =>
            LET path == resolve_entity_path(topic_to_entity_path, job[w].topic)
                out == job[w].out
                found == job[w].looked # <<>> /\ job[w].looked[1].found
            IN  /\ Len(out) = IF found THEN 2 ELSE 1
                /\ out[Len(out)].path = path
                /\ out[Len(out)].archetype \in {"Image", "DepthImage"}
                /\ found =>
                      /\ out[1].archetype = "Transform3D"
                      /\ out[1].path = parent_entity_path(path)
                      /\ out[1].timestamp = out[2].timestamp
                /\ ~crashed

\* An image callback whose lookup failed has ended with the image emitted.
C6_LookupFailed ==
    \E w \in Workers :
        /\ Done(w, "sensor_msgs/Image")
        /\ job[w].topic \notin DOMAIN topic_to_entity_path
        /\ job[w].looked # <<>>
        /\ ~job[w].looked[1].found
        /\ Len(job[w].out) = 1

\* C7: in a sampler tick every frame with a non-empty parent is looked up
\* once, and gets exactly one emission at its entity path when its lookup
\* succeeds and none when it fails, whatever the other lookups did.
Emissions(out, path) == Cardinality({k \in 1..Len(out) : out[k].path = path})

C7_FailedLookupSkipsOneFrame ==
    \A w \in Workers :
        Done(w, "tick") =>
            /\ \A f \in DOMAIN tf_frame_to_entity_path :
                  (f \in DOMAIN tf_frame_to_parent /\ tf_frame_to_parent[f] # <<>>) =>
                      /\ Cardinality({k \in 1..Len(job[w].looked) :
                                         job[w].looked[k].frame = f}) = 1
                      /\ \A k \in 1..Len(job[w].looked) :
                            job[w].looked[k].frame = f =>
                                Emissions(job[w].out, tf_frame_to_entity_path[f])
                                    = IF job[w].looked[k].found THEN 1 ELSE 0
            /\ Len(job[w].out)
                   = Cardinality({k \in 1..Len(job[w].looked) : job[w].looked[k].found})

\* A tick has ended in which the first lookup failed and a later one
\* succeeded and was emitted.
C7_FailedThenEmitted ==
    \E w \in Workers :
        /\ Done(w, "tick")
        /\ Len(job[w].looked) = 2
        /\ ~job[w].looked[1].found
        /\ job[w].looked[2].found
        /\ Len(job[w].out) = 1
        /\ job[w].out[1].path = tf_frame_to_entity_path[job[w].looked[2].frame]

\* C8: every topic a poll binds was declared by that poll's registry with a
\* supported kind and is bound to the callback of that kind; a topic declared
\* only with an unsupported kind stays unbound, and the poll ends normally.
C8_BoundAsDeclared ==
    \A w \in Workers :
        Done(w, "poll") =>
            /\ \A t \in DOMAIN topic_to_subscriber \ DOMAIN job[w].before[1].subs :
                  /\ Declares(job[w].msg, t, {topic_to_subscriber[t].kind})
                  /\ topic_to_subscriber[t].kind \in Supported
            /\ \A t \in TopicNames \ DOMAIN job[w].before[1].subs :
                  ~Declares(job[w].msg, t, Supported) => t \notin DOMAIN topic_to_subscriber
            /\ ~crashed

\* A poll has bound a topic declared as odometry while another topic, seen
\* with an unsupported kind, stays unbound.
C8_SupportedBoundUnsupportedNot ==
    \E w \in Workers :
        /\ Done(w, "poll")
        /\ \E t \in DOMAIN topic_to_subscriber \ DOMAIN job[w].before[1].subs :
              topic_to_subscriber[t].kind = "nav_msgs/Odometry"
        /\ \E t \in seen_unsupported :
              /\ t \notin DOMAIN topic_to_subscriber
              /\ Declares(job[w].msg, t, Datatypes \ Supported)

\* C9: every topic the registry declares with a supported kind at a poll is
\* bound when that poll ends, also a topic that earlier polls left unbound.
C9_SupportedBoundByEndOfPoll ==
    \A w \in Workers :
        Done(w, "poll") =>
            \A k \in 1..Len(job[w].msg) :
                job[w].msg[k].datatype \in Supported =>
                    job[w].msg[k].name \in DOMAIN topic_to_subscriber

\* A poll that declared a topic as camera intrinsics has bound it, an
\* earlier poll having seen it with an unsupported kind.
C9_BoundAfterUnsupported ==
    \E w \in Workers :
        /\ Done(w, "poll")
        /\ Len(job[w].msg) = 1
        /\ job[w].msg[1].datatype = "sensor_msgs/CameraInfo"
        /\ job[w].msg[1].name \in seen_unsupported
        /\ job[w].msg[1].name \notin DOMAIN job[w].before[1].subs
        /\ job[w].msg[1].name \in DOMAIN topic_to_subscriber

\* C10: a poll whose registry holds no topic that is both unbound and of a
\* supported kind changes no binding, makes no subscribe call and emits
\* nothing; and a second poll of the same registry changes nothing.
NothingNew(w) ==
    \A k \in 1..Len(job[w].msg) :
        \/ job[w].msg[k].name \in DOMAIN job[w].before[1].subs
        \/ job[w].msg[k].datatype \notin Supported

C10_PollWithoutNewTopicsIsNoOp ==
    \A w \in Workers :
        Done(w, "poll") =>
            LET now == [subs |-> topic_to_subscriber, calls |-> subscribe_calls,
                        ignored |-> {}]
                again == create_subscribers(topic_to_entity_path, job[w].msg, now)
            IN  /\ NothingNew(w) =>
                      /\ topic_to_subscriber = job[w].before[1].subs
                      /\ subscribe_calls = job[w].before[1].calls
                      /\ job[w].i = 0
                /\ job[w].out = <<>>
                /\ again.subs = topic_to_subscriber
                /\ again.calls = subscribe_calls

\* A poll of a registry of bound and unsupported topics only has run, with
\* bindings in place.
C10_NothingNewPolled ==
    \E w \in Workers :
        /\ Done(w, "poll")
        /\ Len(job[w].msg) = MaxRegistry
        /\ NothingNew(w)
        /\ job[w].before[1].subs # EmptyMap
        /\ Declares(job[w].msg, TopicA, Supported)


\* C11: when the document has no tf.update_rate, or has it equal to zero, the
\* sampler is disabled: no sampler tick ever runs, and so no sampler lookup
\* or emission is made, whatever else the document holds.
C11_NoRateNoSampler ==
    (config.update_rate = <<>> \/ config.update_rate = <<0>>) =>
        \A w \in Workers :
            job[w].kind = "tick" => (pc[w] = "idle" /\ job[w].looked = <<>> /\ job[w].out = <<>>)

\* C12: a topic that is a key of the document's override table is bound at
\* exactly the configured entity path, whatever the topic and the value look
\* like.
C12_OverrideReturnedVerbatim ==
    \A t \in DOMAIN topic_to_subscriber :
        t \in DOMAIN config.topic_to_entity_path =>
            topic_to_subscriber[t].entity_path = config.topic_to_entity_path[t]

\* Topics overridden with the empty path and with a relative path are bound
\* there, and not at their fallback paths.
C12_OddOverridesBound ==
    /\ TopicOneTwoThreeFour \in DOMAIN topic_to_subscriber
    /\ TopicSingle \in DOMAIN topic_to_subscriber
    /\ topic_to_subscriber[TopicOneTwoThreeFour].entity_path = OverrideEmpty
    /\ topic_to_subscriber[TopicSingle].entity_path = OverrideRelative
    /\ topic_to_subscriber[TopicSingle].kind = "sensor_msgs/Imu"

\* C13: a topic with no override that starts with '/' resolves to "/topics"
\* followed by the topic, every '/' but the leading and the last one replaced
\* by '-': "/one/two/three/four" gives "/topics/one-two-three/four",
\* "/single" gives "/topics/single" and "/a" gives "/topics/a".
\* (Camera intrinsics are bound at the parent of that path and are left to C14.)
ExpectedFallback(t) ==
    TopicsPrefix \o
    [i \in 1..Len(t) |->
        IF t[i] = "/" /\ i # 1 /\ (\E j \in (i + 1)..Len(t) : t[j] = "/")
        THEN "-" ELSE t[i]]

C13_FallbackFlattening ==
    \A t \in DOMAIN topic_to_subscriber :
        (t \notin DOMAIN config.topic_to_entity_path
         /\ topic_to_subscriber[t].kind # "sensor_msgs/CameraInfo") =>
            LET path == topic_to_subscriber[t].entity_path
            IN  /\ path = ExpectedFallback(t)
                /\ t = TopicOneTwoThreeFour =>
                      path = <<"/", "t", "o", "p", "i", "c", "s", "/", "o", "n", "e", "-", "t", "w", "o", "-", "t", "h", "r", "e", "e", "/", "f", "o", "u", "r">>
                /\ t = TopicSingle => path = <<"/", "t", "o", "p", "i", "c", "s", "/", "s", "i", "n", "g", "l", "e">>
                /\ t = TopicA => path = <<"/", "t", "o", "p", "i", "c", "s", "/", "a">>

\* The four-segment topic, the single-segment topics and "/a" are bound
\* with no override in force.
C13_ExamplesBound ==
    /\ config.topic_to_entity_path = EmptyMap
    /\ {TopicOneTwoThreeFour, TopicSingle, TopicA} \subseteq DOMAIN topic_to_subscriber
    /\ topic_to_subscriber[TopicOneTwoThreeFour].kind = "sensor_msgs/Image"
    /\ topic_to_subscriber[TopicSingle].kind = "sensor_msgs/Imu"

\* C14: a camera-intrinsics topic with no override is bound at the parent of
\* its resolved path, which is the parent of the path of an image topic of
\* the same namespace ("/camera/image_raw" at "/topics/camera/image_raw",
\* "/camera/camera_info" at "/topics/camera"); with an override it is bound
\* at exactly the configured path.
Namespace(t) == SubSeq(t, 1, LastSlash(t))

C14_IntrinsicsAtParent ==
    \A t \in DOMAIN topic_to_subscriber :
        topic_to_subscriber[t].kind = "sensor_msgs/CameraInfo" =>
            LET path == topic_to_subscriber[t].entity_path
            IN  IF t \in DOMAIN config.topic_to_entity_path
                THEN path = config.topic_to_entity_path[t]
                ELSE /\ path \o SubSeq(t, LastSlash(t), Len(t)) = ExpectedFallback(t)
                     /\ t = TopicCameraInfo => path = <<"/", "t", "o", "p", "i", "c", "s", "/", "c", "a", "m", "e", "r", "a">>
                     /\ \A u \in DOMAIN topic_to_subscriber :
                           (/\ topic_to_subscriber[u].kind = "sensor_msgs/Image"
                            /\ u \notin DOMAIN config.topic_to_entity_path
                            /\ Namespace(u) = Namespace(t)) =>
                               parent_entity_path(topic_to_subscriber[u].entity_path) = path

\* The sibling topics are both bound with no override in force, the image
\* at "/topics/camera/image_raw".
C14_SiblingsBound ==
    /\ config.topic_to_entity_path = EmptyMap
    /\ {TopicImageRaw, TopicCameraInfo} \subseteq DOMAIN topic_to_subscriber
    /\ topic_to_subscriber[TopicImageRaw].kind = "sensor_msgs/Image"
    /\ topic_to_subscriber[TopicImageRaw].entity_path =
           <<"/", "t", "o", "p", "i", "c", "s", "/", "c", "a", "m", "e", "r", "a", "/", "i", "m", "a", "g", "e", "_", "r", "a", "w">>
    /\ topic_to_subscriber[TopicCameraInfo].kind = "sensor_msgs/CameraInfo"


\* C15: the frame tree built from a nested declaration gives every declared
\* frame the path '/' + the '/'-joined chain of frame names from the outermost
\* key down to it, and as parent the frame that directly encloses it (none
\* for the outermost key); leaves are entries; A > B > C gives /A, /A/B
\* (parent A), /A/B/C (parent B).
RECURSIVE Chains(_, _)
Chains(node, prefix) ==
    IF node = <<>> THEN {}
    ELSE LET chain == Append(prefix, Head(node)[1])
         IN  {chain} \cup Chains(Head(node)[2], chain) \cup Chains(Tail(node), prefix)

RECURSIVE Joined(_)
Joined(chain) ==
    IF chain = <<>> THEN <<>>
    ELSE Joined(SubSeq(chain, 1, Len(chain) - 1)) \o <<"/">> \o chain[Len(chain)]

C15_FrameTreeBuilt ==
    LET chains == IF config.tree = <<>> THEN {} ELSE Chains(config.tree[1], <<>>)
    IN  /\ DOMAIN tf_frame_to_entity_path = {c[Len(c)] : c \in chains}
        /\ DOMAIN tf_frame_to_parent = {c[Len(c)] : c \in chains}
        /\ \A c \in chains :
              /\ tf_frame_to_entity_path[c[Len(c)]] = Joined(c)
              /\ tf_frame_to_parent[c[Len(c)]] =
                     IF Len(c) = 1 THEN <<>> ELSE c[Len(c) - 1]
              /\ Len(c) > 1 => tf_frame_to_parent[c[Len(c)]] # <<>>
        /\ config.tree = <<TreeABC>> =>
              /\ tf_frame_to_entity_path =
                     (FrameA :> <<"/", "A">> @@ FrameB :> <<"/", "A", "/", "B">> @@ FrameC :> <<"/", "A", "/", "B", "/", "C">>)
              /\ tf_frame_to_parent =
                     (FrameA :> <<>> @@ FrameB :> FrameA @@ FrameC :> FrameB)

\* The node runs on the declaration A > B > C, the leaf C an entry under B.
C15_ChainOfThree ==
    /\ config.tree = <<TreeABC>>
    /\ FrameC \in DOMAIN tf_frame_to_entity_path
    /\ tf_frame_to_parent[FrameC] = FrameB
    /\ Len(tf_frame_to_entity_path[FrameC]) = 6

\* C16: an image callback emits exactly one image, chosen by the declared
\* encoding alone: 16UC1 a depth image of 1000 units to the meter, 32FC1 a
\* depth image of 1 unit to the meter, any other encoding a color image.
C16_EmissionByEncoding ==
    \A w \in Workers :
        Done(w, "sensor_msgs/Image") =>
            LET out == job[w].out
                images == {k \in 1..Len(out) : out[k].archetype \in {"Image", "DepthImage"}}
                last == out[Len(out)]
            IN  /\ images = {Len(out)}
                /\ job[w].msg.encoding = "16UC1" =>
                      (last.archetype = "DepthImage" /\ last.arg = <<1000>>)
                /\ job[w].msg.encoding = "32FC1" =>
                      (last.archetype = "DepthImage" /\ last.arg = <<1>>)
                /\ job[w].msg.encoding \notin {"16UC1", "32FC1"} =>
                      (last.archetype = "Image" /\ last.arg = <<>>)

\* A 16UC1 image has been handled after its transform was emitted.
C16_DepthAfterTransform ==
    \E w \in Workers :
        /\ Done(w, "sensor_msgs/Image")
        /\ job[w].msg.encoding = "16UC1"
        /\ Len(job[w].out) = 2
        /\ job[w].out[2].arg = <<1000>>

\* C17: a "file://<path>" reference resolves to <path>, a
\* "package://<name>/<rest>" reference to the location of <name> followed by
\* "/<rest>", any reference of another form to itself; when the package is
\* unknown the constructor throws an error that names the package, and no
\* subscription is made and no timer callback runs.
Names(thrown, package_name) ==
    thrown # <<>> /\ \E k \in 1..Len(thrown[1]) : thrown[1][k] = package_name

C17_FileReferenceResolved ==
    config.urdf # <<>> =>
        LET path == config.urdf[1]
            n == Len(path)
        IN  /\ (n >= 7 /\ SubSeq(path, 1, 7) = FileScheme) =>
                  urdf = [file |-> <<SubSeq(path, 8, n)>>, thrown |-> <<>>]
            /\ (~(n >= 7 /\ SubSeq(path, 1, 7) = FileScheme)
                 /\ ~(n >= 10 /\ SubSeq(path, 1, 10) = PackageScheme)) =>
                  urdf = [file |-> <<path>>, thrown |-> <<>>]
            /\ \A k \in 11..n :
                  (/\ SubSeq(path, 1, 10) = PackageScheme
                   /\ path[k] = "/"
                   /\ \A j \in 11..(k - 1) : path[j] # "/") =>
                      LET name == SubSeq(path, 11, k - 1)
                          rest == SubSeq(path, k + 1, n)
                      IN  IF name \in DOMAIN PackageLocations
                          THEN urdf = [file |-> <<PackageLocations[name] \o <<"/">> \o rest>>,
                                       thrown |-> <<>>]
                          ELSE /\ urdf.file = <<>>
                               /\ Names(urdf.thrown, name)
            /\ urdf.thrown # <<>> =>
                  /\ crashed
                  /\ topic_to_subscriber = EmptyMap
                  /\ \A t \in AllTopics : subscribe_calls[t] = 0
                  /\ \A w \in Workers : pc[w] = "idle" /\ job[w] = NoJob
            /\ urdf.thrown = <<>> => urdf.file # <<>>

\* Startup has ended in the error that names the unknown package "zz".
C17_UnknownPackage ==
    /\ config.urdf = <<PackageScheme \o <<"z", "z", "/", "u">> >>
    /\ Names(urdf.thrown, <<"z", "z">>)
    /\ crashed


\* C18: after startup no discovery poll, message callback or sampler tick
\* changes the override table, the two frame maps, the root frame or the
\* sampler rate; the bindings change in discovery polls only, and apart from
\* them the only shared state that changes is the time offset and its flag.
C18_ConfigurationReadOnly ==
    [][/\ topic_to_entity_path' = topic_to_entity_path
       /\ tf_frame_to_entity_path' = tf_frame_to_entity_path
       /\ tf_frame_to_parent' = tf_frame_to_parent
       /\ root_frame' = root_frame
       /\ tf_fixed_rate' = tf_fixed_rate
       /\ topic_to_subscriber' # topic_to_subscriber =>
             \E w \in Workers :
                 pc[w] = "idle" /\ pc'[w] = "done" /\ job'[w].kind = "poll"
       /\ (time_offset' # time_offset \/ time_offset_initialized' # time_offset_initialized) =>
             \E w \in Workers :
                 /\ pc[w] \in {"store_offset", "store_flag", "flag_first", "offset_last"}
                 /\ pc'[w] # pc[w]]_vars

\* Polls, callbacks and a sampler tick have run on a node with a frame tree:
\* bindings were made, the offset is set and the tick has emitted.
C18_AllHaveRun ==
    /\ topic_to_subscriber # EmptyMap
    /\ tf_frame_to_parent # EmptyMap
    /\ time_offset_initialized
    /\ \E w \in Workers : Done(w, "tick") /\ job[w].out # <<>> /\ ~job[w].first

\* C19: every emission of a transform-list callback carries the same
\* normalized timestamp, the one derived from the header time of the first
\* entry, also when that entry is unmapped and later entries carry other
\* header times.
C19_BatchStampedFromFirstEntry ==
    \A w \in Workers :
        (Done(w, "tf2_msgs/TFMessage") /\ job[w].msg # <<>>) =>
            \A k \in 1..Len(job[w].out) :
                job[w].out[k].timestamp = <<job[w].msg[1].stamp - first_stamp[1]>>

\* A batch whose first entry is unmapped and whose second, mapped entry
\* carries another header time has been emitted.
C19_LaterEntryOtherTime ==
    \E w \in Workers :
        /\ Done(w, "tf2_msgs/TFMessage")
        /\ Len(job[w].msg) = 2
        /\ ~HasEntityPath(job[w].msg[1])
        /\ HasEntityPath(job[w].msg[2])
        /\ job[w].msg[2].stamp # job[w].msg[1].stamp
        /\ Len(job[w].out) = 1
        /\ job[w].out[1].timestamp # <<0>>

\* C20 (as stated): for every image on a topic with no override the callback
\* attempts one lookup from the declared root frame to the image's frame at
\* the image's header time with a wait of 0.1; on a topic with an override
\* no lookup is attempted and the image is the only emission.
DeclaredRoot == IF config.tree = <<>> THEN <<>> ELSE config.tree[1][1][1]

LookedUpOnce(w) ==
    /\ Len(job[w].looked) = 1
    /\ job[w].looked[1].target = DeclaredRoot
    /\ job[w].looked[1].frame = job[w].msg.frame_id
    /\ job[w].looked[1].time = job[w].msg.stamp
    /\ job[w].looked[1].timeout = 1

ImageOnly(w) ==
    /\ job[w].looked = <<>>
    /\ Len(job[w].out) = 1
    /\ job[w].out[1].archetype \in {"Image", "DepthImage"}

C20_LookupForEveryImage ==
    \A w \in Workers :
        Done(w, "sensor_msgs/Image") =>
            IF job[w].topic \notin DOMAIN config.topic_to_entity_path
            THEN LookedUpOnce(w)
            ELSE ImageOnly(w)

\* C20 (amended): the lookup is attempted for every image on a topic with no
\* override when a root frame is declared; on a topic with an override, and
\* when no root frame is declared, no lookup is attempted and the image is
\* the only emission.
C20_LookupWhenRootDeclared ==
    \A w \in Workers :
        Done(w, "sensor_msgs/Image") =>
            IF job[w].topic \notin DOMAIN config.topic_to_entity_path /\ DeclaredRoot # <<>>
            THEN LookedUpOnce(w)
            ELSE ImageOnly(w)

\* An image of header time 2 on a topic with no override has been handled,
\* its lookup made against the declared root frame.
C20_LookedUpAtImageTime ==
    \E w \in Workers :
        /\ Done(w, "sensor_msgs/Image")
        /\ job[w].topic \notin DOMAIN config.topic_to_entity_path
        /\ job[w].msg.stamp = 2
        /\ job[w].looked # <<>>
        /\ job[w].looked[1].target = FrameA
        /\ job[w].looked[1].time = 2

\* C21: in a sampler tick taken at time now every lookup asks for the
\* transform from the frame's parent to the frame at time now - 1 (and passes
\* no wait), every emission of the tick carries normalize(now) and not the
\* lookup time, no lookup or emission is made for a frame whose parent is
\* empty, and a tick in which every lookup fails has called normalize for
\* nothing: it emits nothing and leaves the time offset uninitialised if it
\* was.
C21_TickLooksBackOneSecond ==
    \A w \in Workers :
        (job[w].kind = "tick" /\ pc[w] # "idle") =>
            LET now == job[w].stamp
                looked == job[w].looked
                out == job[w].out
            IN  /\ \A k \in 1..Len(looked) :
                      /\ looked[k].frame \in DOMAIN tf_frame_to_parent
                      /\ looked[k].target = tf_frame_to_parent[looked[k].frame]
                      /\ looked[k].target # <<>>
                      /\ looked[k].time = now - 1
                      /\ looked[k].timeout = 0
                /\ \A k \in 1..Len(out) :
                      /\ out[k].timestamp = <<now - first_stamp[1]>>
                      /\ \E f \in DOMAIN tf_frame_to_entity_path :
                            /\ tf_frame_to_parent[f] # <<>>
                            /\ out[k].path = tf_frame_to_entity_path[f]
                            /\ out[k].arg = <<Transform(tf_frame_to_parent[f], f, now - 1)>>
                /\ \A f \in DOMAIN tf_frame_to_entity_path :
                      tf_frame_to_parent[f] = <<>> =>
                          /\ Emissions(out, tf_frame_to_entity_path[f]) = 0
                          /\ \A k \in 1..Len(looked) : looked[k].frame # f
                /\ (pc[w] = "done" /\ \A k \in 1..Len(looked) : ~looked[k].found) =>
                      /\ out = <<>>
                      /\ job[w].ret = <<>>
                      /\ ~job[w].first
                      /\ first_stamp = <<>> =>
                            (~time_offset_initialized /\ time_offset = InitialOffset)

\* A tick at time 1 has ended after a callback that saw time 2: its lookups
\* asked for time 0 and its emission carries 1 - 2.
C21_EmittedAtNormalizedNow ==
    \E w \in Workers :
        /\ Done(w, "tick")
        /\ job[w].stamp = 1
        /\ Len(job[w].looked) = 2
        /\ job[w].looked[1].found
        /\ job[w].looked[1].time = 0
        /\ job[w].out[1].timestamp = <<-1>>
        /\ job[w].out[1].path = tf_frame_to_entity_path[job[w].looked[1].frame]

\* C22: a transform list with no entries is handled like any other batch:
\* the process does not fault on it, and its callback emits nothing and is
\* never the normalize call that initialises the time offset.
C22_EmptyBatchChangesNothing ==
    /\ ~crashed
    /\ \A w \in Workers :
          (job[w].kind = "tf2_msgs/TFMessage" /\ job[w].i = -1) =>
              /\ ~job[w].first
              /\ job[w].out = <<>>
              /\ pc[w] \notin {"store_offset", "store_flag", "flag_first", "offset_last"}

\* C23: after the frame tree is built from any nested declaration, also one
\* that declares a frame name more than once or has several outermost keys,
\* the frame-to-path map and the frame-to-parent map have the same keys (the
\* declared names), each name has the one parent and the path of one of its
\* declarations, and every non-empty parent is a key of both maps.
C23_FrameMapsConsistent ==
    LET chains == IF config.tree = <<>> THEN {} ELSE Chains(config.tree[1], <<>>)
    IN  /\ DOMAIN tf_frame_to_entity_path = DOMAIN tf_frame_to_parent
        /\ DOMAIN tf_frame_to_parent = {c[Len(c)] : c \in chains}
        /\ \A f \in DOMAIN tf_frame_to_parent :
              /\ \E c \in chains :
                    /\ c[Len(c)] = f
                    /\ tf_frame_to_parent[f] = IF Len(c) = 1 THEN <<>> ELSE c[Len(c) - 1]
                    /\ tf_frame_to_entity_path[f] = Joined(c)
              /\ tf_frame_to_parent[f] # <<>> =>
                    /\ tf_frame_to_parent[f] \in DOMAIN tf_frame_to_parent
                    /\ tf_frame_to_parent[f] \in DOMAIN tf_frame_to_entity_path

\* The node runs on a declaration with the outermost keys A and B in which B
\* is also declared under A: B has the parent of its last declaration, none.
C23_DeclaredTwice ==
    /\ config.tree = << << <<FrameA, << <<FrameB, <<>> >> >> >>, <<FrameB, <<>> >> >> >>
    /\ DOMAIN tf_frame_to_parent = {FrameA, FrameB}
    /\ tf_frame_to_parent[FrameB] = <<>>
    /\ tf_frame_to_entity_path[FrameB] = <<"/", "B">>
    /\ topic_to_subscriber # EmptyMap

====
